---- MODULE Spec2Model ----
(***************************************************************************)
(* Model of app.py: the per-route aggregation (summarize_routes), the      *)
(* three derived tables (simulate_scenario, calculate_smart_bin_roi,       *)
(* calculate_carbon_emissions) and the Streamlit script that reruns them   *)
(* on every slider change.                                                 *)
(*                                                                         *)
(* Numbers.  A pandas float64 cell is modelled as an exact rational with   *)
(* the IEEE-754 special values kept: a record                              *)
(*     [k |-> "fin" | "inf" | "nan", neg |-> sign, n |-> num, d |-> den]   *)
(* in sign-magnitude form, so that +0 and -0, +inf and -inf and NaN behave *)
(* as they do in numpy (x/0 = inf, 0/0 = NaN, NaN # NaN, NaN skipped by    *)
(* groupby sum/mean/count).  Rounding of finite results is not modelled.   *)
(***************************************************************************)
EXTENDS Integers, Sequences, FiniteSets, TLC

----------------------------------------------------------------------------
(* float64 arithmetic *)

RECURSIVE GCD(_, _)
GCD(a, b) == IF b = 0 THEN a ELSE GCD(b, a % b)

Fin(neg, n, d) ==
    LET g == GCD(n, d)
    IN  [k |-> "fin", neg |-> neg, n |-> n \div g, d |-> d \div g]

NaN == [k |-> "nan", neg |-> FALSE, n |-> 0, d |-> 1]
Inf(neg) == [k |-> "inf", neg |-> neg, n |-> 0, d |-> 1]

Abs(i) == IF i < 0 THEN 0 - i ELSE i

\* the value n/d (d > 0), n of either sign; +0 for n = 0
Rat(n, d) == Fin(n < 0, Abs(n), d)
Num(i) == Rat(i, 1)

IsNaN(x) == x.k = "nan"
IsFinite(x) == x.k = "fin"
IsZero(x) == x.k = "fin" /\ x.n = 0

\* signed numerator of a finite value
SNum(x) == IF x.neg THEN 0 - x.n ELSE x.n

FNeg(x) == IF IsNaN(x) THEN NaN ELSE [x EXCEPT !.neg = ~x.neg]

FAdd(x, y) ==
    IF IsNaN(x) \/ IsNaN(y) THEN NaN
    ELSE IF x.k = "inf" /\ y.k = "inf"
         THEN (IF x.neg = y.neg THEN x ELSE NaN)
    ELSE IF x.k = "inf" THEN x
    ELSE IF y.k = "inf" THEN y
    ELSE LET s == SNum(x) * y.d + SNum(y) * x.d
         IN  IF s = 0 THEN Fin(x.neg /\ y.neg, 0, 1)
             ELSE Fin(s < 0, Abs(s), x.d * y.d)

FSub(x, y) == FAdd(x, FNeg(y))

FMul(x, y) ==
    IF IsNaN(x) \/ IsNaN(y) THEN NaN
    ELSE IF (x.k = "inf" /\ IsZero(y)) \/ (IsZero(x) /\ y.k = "inf") THEN NaN
    ELSE IF x.k = "inf" \/ y.k = "inf" THEN Inf(x.neg # y.neg)
    ELSE Fin(x.neg # y.neg, x.n * y.n, x.d * y.d)

FDiv(x, y) ==
    IF IsNaN(x) \/ IsNaN(y) THEN NaN
    ELSE IF x.k = "inf" /\ y.k = "inf" THEN NaN
    ELSE IF IsZero(x) /\ IsZero(y) THEN NaN
    ELSE IF x.k = "inf" \/ IsZero(y) THEN Inf(x.neg # y.neg)
    ELSE IF y.k = "inf" THEN Fin(x.neg # y.neg, 0, 1)
    ELSE Fin(x.neg # y.neg, x.n * y.d, x.d * y.n)

\* IEEE comparisons: every comparison with NaN is false, -0 == +0
FLt(x, y) ==
    /\ ~IsNaN(x) /\ ~IsNaN(y)
    /\ IF x.k = "inf" THEN x.neg /\ ~(y.k = "inf" /\ y.neg)
       ELSE IF y.k = "inf" THEN ~y.neg
       ELSE SNum(x) * y.d < SNum(y) * x.d

FEq(x, y) ==
    /\ ~IsNaN(x) /\ ~IsNaN(y)
    /\ IF x.k = "inf" \/ y.k = "inf" THEN x.k = y.k /\ x.neg = y.neg
       ELSE SNum(x) * y.d = SNum(y) * x.d

FLe(x, y) == FLt(x, y) \/ FEq(x, y)

\* variant of np_minimum that forgets the cap
np_minimum_uncapped(x, y) == x
\* np.minimum: NaN if either operand is NaN, else the smaller
np_minimum(x, y) ==
    IF IsNaN(x) \/ IsNaN(y) THEN NaN
    ELSE IF FLt(y, x) THEN y ELSE x

----------------------------------------------------------------------------
(* the household table read from synthetic_waste_management_data.csv *)

\* a missing collection_route cell (pandas reads it as NaN; groupby drops it)
NoRoute == 0

\* largest number of household rows in the modelled file
MaxRows == 2

Household(route, hid, pop, waste, rate, len, time) ==
    [household_id |-> hid, collection_route |-> route, population |-> pop,
     waste_gen_kg_per_day |-> waste, recycling_rate |-> rate,
     route_length_km |-> len, route_time_hr |-> time]

\* the rows a file may hold: ordinary households, a household on a route with
\* a high recycling rate, an all-zero row, a row with missing cells, and a row
\* whose route cell is missing
HouseholdRows ==
    { Household(1, Num(1), Num(3), Num(5), Rat(3, 10), Num(5), Num(1)),
      Household(1, Num(2), Num(2), Num(3), Rat(3, 5), Num(2), Rat(1, 2)),
      Household(2, Num(1), Num(3), Num(5), Rat(3, 10), Num(5), Num(1)),
      Household(2, Num(3), Num(1), Num(0), Num(0), Num(0), Num(0)),
      Household(2, NaN, Num(4), NaN, Num(1), Num(1), Num(1)),
      Household(NoRoute, Num(4), Num(2), Num(3), Rat(3, 5), Num(2), Rat(1, 2)) }

RECURSIVE SeqsUpTo(_, _)
SeqsUpTo(S, n) ==
    IF n = 0 THEN {<<>>}
    ELSE LET shorter == SeqsUpTo(S, n - 1)
         IN  shorter \cup {Append(t, x) : t \in {u \in shorter : Len(u) = n - 1}, x \in S}

Tables == SeqsUpTo(HouseholdRows, MaxRows)

----------------------------------------------------------------------------
(* pandas helpers *)

RECURSIVE SortedSeq(_)
SortedSeq(S) ==
    IF S = {} THEN <<>>
    ELSE LET m == CHOOSE x \in S : \A y \in S : x <= y
         IN  <<m>> \o SortedSeq(S \ {m})

\* variant of group_keys: one key per household row, not per distinct route
RECURSIVE group_keys_per_row(_)
group_keys_per_row(df) ==
    IF df = <<>> THEN <<>>
    ELSE (IF Head(df).collection_route = NoRoute THEN <<>>
          ELSE <<Head(df).collection_route>>) \o group_keys_per_row(Tail(df))
\* the group keys of df.groupby("collection_route"): sorted, NaN keys dropped
group_keys(df) ==
    SortedSeq({df[i].collection_route : i \in DOMAIN df} \ {NoRoute})

group_rows(df, key) == SelectSeq(df, LAMBDA h : h.collection_route = key)

\* agg "count": the cells of the column that are not NaN
agg_count(g, col) == Num(Len(SelectSeq(g, LAMBDA h : ~IsNaN(h[col]))))

\* agg "sum": NaN cells skipped, 0 for a group with none left (the arithmetic
\* is exact, so the order of the additions does not matter)
RECURSIVE agg_sum(_, _)
agg_sum(g, col) ==
    IF g = <<>> THEN Num(0)
    ELSE LET rest == agg_sum(Tail(g), col)
             v    == Head(g)[col]
         IN  IF IsNaN(v) THEN rest ELSE FAdd(v, rest)

\* agg "mean": sum / count of the non-NaN cells, NaN for a group with none
agg_mean(g, col) == FDiv(agg_sum(g, col), agg_count(g, col))

\* the sequence f[1], ..., f[n]
Series(f, n) ==
    LET m[i \in 0..n] == IF i = 0 THEN <<>> ELSE Append(m[i - 1], f[i])
    IN  m[n]

\* frame[col]
Col(frame, col) == Series([i \in DOMAIN frame |-> frame[i][col]], Len(frame))

\* a scalar as a column of the frame
Broadcast(frame, v) == Series([i \in DOMAIN frame |-> v], Len(frame))

\* element-wise +, *, / and np.minimum of two columns
SAdd(a, b) == Series([i \in DOMAIN a |-> FAdd(a[i], b[i])], Len(a))
SMul(a, b) == Series([i \in DOMAIN a |-> FMul(a[i], b[i])], Len(a))
SDiv(a, b) == Series([i \in DOMAIN a |-> FDiv(a[i], b[i])], Len(a))
SMinimum(a, b) == Series([i \in DOMAIN a |-> np_minimum(a[i], b[i])], Len(a))

\* frame[col] = column: adds the column or overwrites it
SetCol(frame, col, column) ==
    Series([i \in DOMAIN frame |-> (col :> column[i]) @@ frame[i]], Len(frame))

\* frame[[cols]]
getitem(frame, cols) ==
    Series([i \in DOMAIN frame |-> [c \in cols |-> frame[i][c]]], Len(frame))

\* variant of sum_axis1 that leaves the maintenance cost out
sum_axis1_two_columns(a, b, c) == SAdd(a, b)
\* DataFrame.sum(axis=1) over three columns: left to right, NaN skipped
sum_axis1(a, b, c) ==
    LET z(v) == IF IsNaN(v) THEN Num(0) ELSE v
    IN  Series([i \in DOMAIN a |-> FAdd(FAdd(z(a[i]), z(b[i])), z(c[i]))], Len(a))

----------------------------------------------------------------------------
(* summarize_routes *)

fuel_cost_per_km == Rat(8, 10)
labor_cost_per_hour == Num(15)
maintenance_cost_per_km == Rat(1, 10)

groupby_agg(df) ==
    LET keys == group_keys(df)
    IN  Series([i \in DOMAIN keys |->
            LET g == group_rows(df, keys[i])
            IN  [collection_route     |-> keys[i],
                 total_households     |-> agg_count(g, "household_id"),
                 total_population     |-> agg_sum(g, "population"),
                 avg_waste_kg_per_day |-> agg_mean(g, "waste_gen_kg_per_day"),
                 avg_recycling_rate   |-> agg_mean(g, "recycling_rate"),
                 avg_route_length_km  |-> agg_mean(g, "route_length_km"),
                 avg_route_time_hr    |-> agg_mean(g, "route_time_hr"),
                 total_distance_km    |-> agg_sum(g, "route_length_km"),
                 total_time_hr        |-> agg_sum(g, "route_time_hr")]],
            Len(keys))

\* variant of total_waste_kg_per_day: population in place of the household count
total_waste_by_population(rs) ==
    SMul(Col(rs, "total_population"), Col(rs, "avg_waste_kg_per_day"))
\* the total_waste_kg_per_day column of the summary
total_waste_kg_per_day(rs) ==
    SMul(Col(rs, "total_households"), Col(rs, "avg_waste_kg_per_day"))

\* lines 37-39: the three unit costs, the same in every row
set_unit_costs(rs) ==
    SetCol(SetCol(SetCol(rs, "fuel_cost_per_km", Broadcast(rs, fuel_cost_per_km)),
                  "labor_cost_per_hour", Broadcast(rs, labor_cost_per_hour)),
           "maintenance_cost_per_km", Broadcast(rs, maintenance_cost_per_km))

set_total_fuel_cost(rs) ==
    SetCol(rs, "total_fuel_cost",
           SMul(Col(rs, "total_distance_km"), Col(rs, "fuel_cost_per_km")))

set_total_labor_cost(rs) ==
    SetCol(rs, "total_labor_cost",
           SMul(Col(rs, "total_time_hr"), Col(rs, "labor_cost_per_hour")))

set_total_maintenance_cost(rs) ==
    SetCol(rs, "total_maintenance_cost",
           SMul(Col(rs, "total_distance_km"), Col(rs, "maintenance_cost_per_km")))

set_total_operational_cost(rs) ==
    SetCol(rs, "total_operational_cost",
           sum_axis1(Col(rs, "total_fuel_cost"), Col(rs, "total_labor_cost"),
                     Col(rs, "total_maintenance_cost")))

set_total_waste_kg_per_day(rs) ==
    SetCol(rs, "total_waste_kg_per_day", total_waste_kg_per_day(rs))

set_cost_per_kg_waste(rs) ==
    SetCol(rs, "cost_per_kg_waste",
           SDiv(Col(rs, "total_operational_cost"), Col(rs, "total_waste_kg_per_day")))

\* the statements of summarize_routes, first to last, innermost first
summarize_routes(df) ==
    set_cost_per_kg_waste(
    set_total_waste_kg_per_day(
    set_total_operational_cost(
    set_total_maintenance_cost(
    set_total_labor_cost(
    set_total_fuel_cost(
    set_unit_costs(
    groupby_agg(df))))))))

----------------------------------------------------------------------------
(* the three consumers of the route summary.  Each takes the heap of frames  *)
(* and the name under which the caller's summary is stored, and returns the  *)
(* heap after the call together with the frame it returns.  Inside a call,   *)
(* w = [heap, ref] is the heap and the name of the frame being worked on.    *)

\* variant of DataFrame_copy: no copy, the callee works on the caller's frame
DataFrame_alias(heap, src, dst) == [heap |-> heap, ref |-> src]
\* DataFrame.copy(): a new frame under dst with the cells of src
DataFrame_copy(heap, src, dst) ==
    [heap |-> (dst :> heap[src]) @@ heap, ref |-> dst]

\* the frame being worked on
Frame(w) == w.heap[w.ref]

\* frame[col] = column, on the frame being worked on
setitem(w, col, column) ==
    [heap |-> [w.heap EXCEPT ![w.ref] = SetCol(w.heap[w.ref], col, column)],
     ref  |-> w.ref]

\* return frame[[cols]]
return(w, cols) == [heap |-> w.heap, ret |-> getitem(Frame(w), cols)]

\* the columns simulate_scenario computes from its working copy sim
new_recycling_rate(sim, recycling_increase) ==
    SMinimum(SAdd(Col(sim, "avg_recycling_rate"), Broadcast(sim, recycling_increase)),
             Broadcast(sim, Num(1)))

adjusted_waste_kg_per_day(sim) ==
    SMul(SMul(Col(sim, "total_households"), Col(sim, "avg_waste_kg_per_day")),
         Series([i \in DOMAIN sim |-> FSub(Num(1), sim[i].new_recycling_rate)],
                Len(sim)))

\* variant of scenario_operational_cost: maintenance cost left out
scenario_operational_cost_no_maintenance(sim) ==
    SAdd(Col(sim, "total_fuel_cost"), Col(sim, "total_labor_cost"))
scenario_operational_cost(sim) ==
    SAdd(SAdd(Col(sim, "total_fuel_cost"), Col(sim, "total_labor_cost")),
         Col(sim, "total_maintenance_cost"))

\* variant of scenario_cost_per_kg: a zero denominator gives 0 instead of dividing
scenario_cost_per_kg_guarded(sim) ==
    Series([i \in DOMAIN sim |->
               IF IsZero(sim[i].adjusted_waste_kg_per_day) THEN Num(0)
               ELSE FDiv(sim[i].total_operational_cost,
                         sim[i].adjusted_waste_kg_per_day)], Len(sim))
scenario_cost_per_kg(sim) ==
    SDiv(Col(sim, "total_operational_cost"), Col(sim, "adjusted_waste_kg_per_day"))

\* the statements of simulate_scenario, lines 53 to 58
sim_new_recycling_rate(w, recycling_increase) ==
    setitem(w, "new_recycling_rate", new_recycling_rate(Frame(w), recycling_increase))

sim_adjusted_waste(w) ==
    setitem(w, "adjusted_waste_kg_per_day", adjusted_waste_kg_per_day(Frame(w)))

sim_fuel_cost_per_km(w, fuel_cost_multiplier) ==
    setitem(w, "fuel_cost_per_km",
            Broadcast(Frame(w), FMul(Rat(8, 10), fuel_cost_multiplier)))

sim_total_fuel_cost(w) ==
    setitem(w, "total_fuel_cost",
            SMul(Col(Frame(w), "total_distance_km"), Col(Frame(w), "fuel_cost_per_km")))

sim_total_operational_cost(w) ==
    setitem(w, "total_operational_cost", scenario_operational_cost(Frame(w)))

sim_cost_per_kg_waste(w) ==
    setitem(w, "cost_per_kg_waste", scenario_cost_per_kg(Frame(w)))

simulate_scenario(heap, summary_df, recycling_increase, fuel_cost_multiplier) ==
    return(
        sim_cost_per_kg_waste(
        sim_total_operational_cost(
        sim_total_fuel_cost(
        sim_fuel_cost_per_km(
            sim_adjusted_waste(
            sim_new_recycling_rate(
                DataFrame_copy(heap, summary_df, "sim"),
                recycling_increase)),
            fuel_cost_multiplier)))),
        {"collection_route", "adjusted_waste_kg_per_day", "new_recycling_rate",
         "total_operational_cost", "cost_per_kg_waste"})

\* the columns calculate_smart_bin_roi computes from roi_df
expected_annual_savings(roi_df, annual_savings_factor) ==
    SMul(Col(roi_df, "total_operational_cost"),
         Broadcast(roi_df, annual_savings_factor))

\* variant of roi_years: cost times savings instead of cost over savings
roi_years_product(roi_df, smart_bin_cost_per_route) ==
    SMul(Broadcast(roi_df, smart_bin_cost_per_route),
         Col(roi_df, "expected_annual_savings"))
roi_years(roi_df, smart_bin_cost_per_route) ==
    SDiv(Broadcast(roi_df, smart_bin_cost_per_route),
         Col(roi_df, "expected_annual_savings"))

\* the statements of calculate_smart_bin_roi, lines 63 and 64
roi_expected_annual_savings(w, annual_savings_factor) ==
    setitem(w, "expected_annual_savings",
            expected_annual_savings(Frame(w), annual_savings_factor))

roi_roi_years(w, smart_bin_cost_per_route) ==
    setitem(w, "roi_years", roi_years(Frame(w), smart_bin_cost_per_route))

calculate_smart_bin_roi(heap, summary_df, smart_bin_cost_per_route, annual_savings_factor) ==
    return(
        roi_roi_years(
            roi_expected_annual_savings(
                DataFrame_copy(heap, summary_df, "roi_df"),
                annual_savings_factor),
            smart_bin_cost_per_route),
        {"collection_route", "total_operational_cost", "expected_annual_savings",
         "roi_years"})

\* variant of carbon_emission_kg: the default factor 2.68 whatever the argument
carbon_emission_default_factor(frame, emission_per_km) ==
    SMul(Col(frame, "total_distance_km"), Broadcast(frame, Rat(268, 100)))
\* the column calculate_carbon_emissions computes from its copy
carbon_emission_kg(frame, emission_per_km) ==
    SMul(Col(frame, "total_distance_km"), Broadcast(frame, emission_per_km))

\* the statement of calculate_carbon_emissions, line 69
carbon_carbon_emission_kg(w, emission_per_km) ==
    setitem(w, "carbon_emission_kg", carbon_emission_kg(Frame(w), emission_per_km))

calculate_carbon_emissions(heap, summary_df, emission_per_km) ==
    return(
        carbon_carbon_emission_kg(
            DataFrame_copy(heap, summary_df, "carbon_df"),
            emission_per_km),
        {"collection_route", "total_distance_km", "carbon_emission_kg"})

----------------------------------------------------------------------------
(* state *)

VARIABLES
    csv,              \* the table in synthetic_waste_management_data.csv on disk
    cache,            \* st.cache_data's entry for load_data()
    recycle_inc_pct,  \* the "Increase in Recycling Rate (%)" slider
    fuel_multiplier,  \* the "Fuel Cost Multiplier" slider
    shown,            \* the frames the last script run handed to st.dataframe / scatter
    df,               \* the household table given to summarize_routes
    pc,               \* "start" before summarize_routes has run, then "ready"
    route_summary,    \* the caller's route summary frame
    last,             \* the latest call of a consumer: its arguments and its return value
    prev              \* the call before it, kept when it called the same function

vars == <<csv, cache, recycle_inc_pct, fuel_multiplier, shown,
          df, pc, route_summary, last, prev>>

appVars == <<csv, cache, recycle_inc_pct, fuel_multiplier, shown>>
callVars == <<df, pc, route_summary, last, prev>>

NoCall == [fn |-> "none", a |-> NaN, b |-> NaN, ret |-> <<>>]
NotShown == [run |-> FALSE, base |-> <<>>, sim |-> <<>>, roi |-> <<>>,
             carbon |-> <<>>, chart |-> <<>>]
EmptyCache == [hit |-> FALSE, value |-> <<>>]

----------------------------------------------------------------------------
(* the Streamlit script *)

\* slider positions explored (sliders run over 0..50 and 0.5..2.0)
RecyclePcts == {0, 20, 50}
FuelMultipliers == {Rat(1, 2), Num(1), Num(2)}

\* variant of load_data without the cache: the file is read on every run
load_data_uncached(c, file) == [hit |-> TRUE, value |-> file]
\* @st.cache_data load_data(): the file is read on the first call only
load_data(c, file) == IF c.hit THEN c ELSE [hit |-> TRUE, value |-> file]

\* one run of the script, top to bottom, with the sliders at pct and mult
RunScript(c, file, pct, mult) ==
    LET ld  == load_data(c, file)
        rs  == summarize_routes(ld.value)
        h0  == [route_summary |-> rs]
        s   == simulate_scenario(h0, "route_summary", FDiv(Num(pct), Num(100)), mult)
        r   == calculate_smart_bin_roi(s.heap, "route_summary", Num(2000), Rat(15, 100))
        e   == calculate_carbon_emissions(r.heap, "route_summary", Rat(268, 100))
    IN  [cache |-> ld,
         shown |-> [run    |-> TRUE,
                    base   |-> rs,
                    sim    |-> s.ret,
                    roi    |-> r.ret,
                    carbon |-> e.ret,
                    chart  |-> getitem(e.heap["route_summary"],
                                  {"total_waste_kg_per_day", "total_operational_cost",
                                   "total_households", "avg_recycling_rate"})]]

Init ==
    /\ csv \in Tables
    /\ cache = EmptyCache
    /\ recycle_inc_pct = 20
    /\ fuel_multiplier = Num(1)
    /\ shown = NotShown
    /\ df = <<>> /\ pc = "start" /\ route_summary = <<>>
    /\ last = NoCall /\ prev = NoCall

\* the page is opened: the first run, sliders at their defaults
OpenPage ==
    /\ ~shown.run
    /\ \E out \in {RunScript(cache, csv, recycle_inc_pct, fuel_multiplier)} :
           cache' = out.cache /\ shown' = out.shown
    /\ UNCHANGED <<csv, recycle_inc_pct, fuel_multiplier, callVars>>

\* the user moves the recycling slider: the script reruns
MoveRecycleSlider(v) ==
    /\ shown.run
    /\ v # recycle_inc_pct
    /\ recycle_inc_pct' = v
    /\ \E out \in {RunScript(cache, csv, v, fuel_multiplier)} :
           cache' = out.cache /\ shown' = out.shown
    /\ UNCHANGED <<csv, fuel_multiplier, callVars>>

\* the user moves the fuel slider: the script reruns
MoveFuelSlider(v) ==
    /\ shown.run
    /\ v # fuel_multiplier
    /\ fuel_multiplier' = v
    /\ \E out \in {RunScript(cache, csv, recycle_inc_pct, v)} :
           cache' = out.cache /\ shown' = out.shown
    /\ UNCHANGED <<csv, recycle_inc_pct, callVars>>

\* something outside the program rewrites the file, dropping its first row
TruncateFile ==
    /\ csv # <<>>
    /\ csv' = Tail(csv)
    /\ UNCHANGED <<cache, recycle_inc_pct, fuel_multiplier, shown, callVars>>

Next ==
    \/ OpenPage
    \/ \E v \in RecyclePcts : MoveRecycleSlider(v)
    \/ \E v \in FuelMultipliers : MoveFuelSlider(v)
    \/ TruncateFile

Spec == Init /\ [][Next]_vars

----------------------------------------------------------------------------
(* the functions, called with arguments of the caller's choosing *)

RecyclingIncreases == {Num(0), Rat(1, 2), Num(1)}
FuelCostMultipliers == {Num(1), Num(2)}
SmartBinCosts == {Num(0), Num(2000)}
SavingsFactors == {Rat(-15, 100), Num(0), Rat(15, 100), Rat(30, 100)}
EmissionFactors == {Rat(268, 100), Rat(536, 100)}

InitCalls ==
    /\ df \in Tables
    /\ pc = "start"
    /\ route_summary = <<>>
    /\ last = NoCall /\ prev = NoCall
    /\ csv = <<>> /\ cache = EmptyCache
    /\ recycle_inc_pct = 20 /\ fuel_multiplier = Num(1) /\ shown = NotShown

Summarize ==
    /\ pc = "start"
    /\ route_summary' = summarize_routes(df)
    /\ pc' = "ready"
    /\ UNCHANGED <<df, last, prev, appVars>>

\* a call returns: the caller keeps its own frame and the returned one
Returned(fn, a, b, out) ==
    /\ route_summary' = out.heap["route_summary"]
    /\ last' = [fn |-> fn, a |-> a, b |-> b, ret |-> out.ret]
    /\ prev' = IF last.fn = fn THEN last ELSE NoCall
    /\ UNCHANGED <<df, pc, appVars>>

CallSimulate(r, m) ==
    /\ pc = "ready"
    /\ \E out \in {simulate_scenario([route_summary |-> route_summary],
                                      "route_summary", r, m)} :
           Returned("simulate", r, m, out)

CallRoi(c, f) ==
    /\ pc = "ready"
    /\ \E out \in {calculate_smart_bin_roi([route_summary |-> route_summary],
                                            "route_summary", c, f)} :
           Returned("roi", c, f, out)

CallCarbon(e) ==
    /\ pc = "ready"
    /\ \E out \in {calculate_carbon_emissions([route_summary |-> route_summary],
                                               "route_summary", e)} :
           Returned("carbon", e, NaN, out)

NextCalls ==
    \/ Summarize
    \/ \E r \in RecyclingIncreases, m \in FuelCostMultipliers : CallSimulate(r, m)
    \/ \E c \in SmartBinCosts, f \in SavingsFactors : CallRoi(c, f)
    \/ \E e \in EmissionFactors : CallCarbon(e)

SpecCalls == InitCalls /\ [][NextCalls]_vars

----------------------------------------------------------------------------
(* properties *)

\* equal as cells: both NaN, or equal numbers
SameValue(x, y) == (IsNaN(x) /\ IsNaN(y)) \/ FEq(x, y)

Rows(frame) == {frame[i] : i \in DOMAIN frame}
RoutesIn(table) == {table[i].collection_route : i \in DOMAIN table} \ {NoRoute}

\* C1: for a non-empty household table, summarize_routes returns exactly one
\* row per distinct collection_route value of the input: none missing, none
\* twice, none that is not in the input (a row whose route cell is missing
\* carries no route value).
C1_OneRowPerRoute ==
    (pc = "ready" /\ df # <<>>) =>
        /\ {r.collection_route : r \in Rows(route_summary)} = RoutesIn(df)
        /\ Len(route_summary) = Cardinality(RoutesIn(df))

C1_Witness ==
    /\ pc = "ready"
    /\ Len(df) = 2
    /\ df[1].collection_route = df[2].collection_route
    /\ df[1].collection_route # NoRoute
    /\ Len(route_summary) = 1

\* C2: in every summary row total_operational_cost = total_fuel_cost +
\* total_labor_cost + total_maintenance_cost, with total_fuel_cost =
\* total_distance_km * 0.8, total_labor_cost = total_time_hr * 15 and
\* total_maintenance_cost = total_distance_km * 0.1.
C2_OperationalCostIsSum ==
    pc = "ready" =>
        \A r \in Rows(route_summary) :
            /\ FEq(r.total_operational_cost,
                   FAdd(FAdd(r.total_fuel_cost, r.total_labor_cost),
                        r.total_maintenance_cost))
            /\ FEq(r.total_fuel_cost, FMul(r.total_distance_km, Rat(8, 10)))
            /\ FEq(r.total_labor_cost, FMul(r.total_time_hr, Num(15)))
            /\ FEq(r.total_maintenance_cost, FMul(r.total_distance_km, Rat(1, 10)))

C2_Witness ==
    /\ pc = "ready"
    /\ \E r \in Rows(route_summary) :
          /\ FLt(Num(0), r.total_fuel_cost)
          /\ FLt(Num(0), r.total_labor_cost)
          /\ FLt(Num(0), r.total_maintenance_cost)

\* C3: for every route and every recycling_increase r >= 0, simulate_scenario
\* sets new_recycling_rate to avg_recycling_rate + r if that is at most 1.0 and
\* to 1.0 otherwise; it never exceeds 1.0, and r = 1.0 with a base rate > 0
\* gives exactly 1.0.
C3_NewRateIsCappedSum ==
    (last.fn = "simulate" /\ FLe(Num(0), last.a)) =>
        /\ Len(last.ret) = Len(route_summary)
        /\ \A i \in DOMAIN last.ret :
              LET base == route_summary[i].avg_recycling_rate
                  new  == last.ret[i].new_recycling_rate
                  sum  == FAdd(base, last.a)
              IN  /\ last.ret[i].collection_route = route_summary[i].collection_route
                  /\ IF FLe(sum, Num(1)) THEN FEq(new, sum) ELSE FEq(new, Num(1))
                  /\ ~FLt(Num(1), new)
                  /\ (FEq(last.a, Num(1)) /\ FLt(Num(0), base)) => FEq(new, Num(1))

C3_Witness ==
    /\ last.fn = "simulate"
    /\ FEq(last.a, Num(1))
    /\ \E i \in DOMAIN last.ret :
          /\ FLt(Num(0), route_summary[i].avg_recycling_rate)
          /\ FLt(route_summary[i].avg_recycling_rate, Num(1))
          /\ FEq(last.ret[i].new_recycling_rate, Num(1))

\* C4: simulate_scenario with recycling_increase = 0.0 and
\* fuel_cost_multiplier = 1.0 returns for every route the total_operational_cost
\* of that route in the base summary.
C4_DefaultsReproduceBaseCost ==
    (last.fn = "simulate" /\ FEq(last.a, Num(0)) /\ FEq(last.b, Num(1))) =>
        /\ Len(last.ret) = Len(route_summary)
        /\ \A i \in DOMAIN last.ret :
              /\ last.ret[i].collection_route = route_summary[i].collection_route
              /\ FEq(last.ret[i].total_operational_cost,
                     route_summary[i].total_operational_cost)

C4_Witness ==
    /\ last.fn = "simulate" /\ FEq(last.a, Num(0)) /\ FEq(last.b, Num(1))
    /\ \E i \in DOMAIN last.ret :
          /\ FLt(Num(0), route_summary[i].total_maintenance_cost)
          /\ FLt(Num(0), last.ret[i].total_operational_cost)

\* C5: a call of simulate_scenario, calculate_smart_bin_roi or
\* calculate_carbon_emissions leaves every column of the caller's route summary
\* as it was, so the ROI table computed after a simulation shows the base
\* total_operational_cost.
C5_SummaryUnchangedByCalls ==
    [][pc = "ready" =>
          /\ route_summary' = route_summary
          /\ last'.fn = "roi" =>
                /\ Len(last'.ret) = Len(route_summary)
                /\ \A i \in DOMAIN last'.ret :
                      FEq(last'.ret[i].total_operational_cost,
                          route_summary[i].total_operational_cost)]_vars

C5_Witness ==
    /\ last.fn = "simulate" /\ FEq(last.b, Num(2))
    /\ route_summary # <<>>
    /\ route_summary = summarize_routes(df)
    /\ \E i \in DOMAIN last.ret :
          ~FEq(last.ret[i].total_operational_cost,
               route_summary[i].total_operational_cost)

\* the two latest calls are calculate_smart_bin_roi with the same cost and
\* annual_savings_factor f1 = prev.b < f2 = last.b
TwoRoiCalls ==
    /\ prev.fn = "roi" /\ last.fn = "roi"
    /\ FEq(prev.a, last.a)
    /\ FLt(prev.b, last.b)

PaybackDefined(row) == IsFinite(row.roi_years)

\* C6 as stated: for any two factors f1 < f2 at which payback is defined,
\* roi_years at f2 is less than roi_years at f1.
C6_AsStated ==
    TwoRoiCalls =>
        \A i \in DOMAIN last.ret :
            (PaybackDefined(prev.ret[i]) /\ PaybackDefined(last.ret[i])) =>
                FLt(last.ret[i].roi_years, prev.ret[i].roi_years)

\* C6, amended: for a route with total_operational_cost > 0, a
\* smart_bin_cost_per_route > 0 and two factors 0 < f1 < f2, roi_years at f2 is
\* less than roi_years at f1.
C6_DecreasingForPositiveInputs ==
    (TwoRoiCalls /\ FLt(Num(0), prev.b) /\ FLt(Num(0), last.a)) =>
        \A i \in DOMAIN last.ret :
            FLt(Num(0), route_summary[i].total_operational_cost) =>
                /\ PaybackDefined(prev.ret[i]) /\ PaybackDefined(last.ret[i])
                /\ FLt(last.ret[i].roi_years, prev.ret[i].roi_years)

C6_Witness ==
    /\ TwoRoiCalls /\ FLt(Num(0), prev.b) /\ FLt(Num(0), last.a)
    /\ \E i \in DOMAIN last.ret :
          /\ FLt(Num(0), route_summary[i].total_operational_cost)
          /\ FLt(last.ret[i].roi_years, prev.ret[i].roi_years)

\* C7: carbon_emission_kg = total_distance_km * e for every route, and
\* calculate_carbon_emissions with factor 2e returns exactly twice what it
\* returns with factor e.
C7_EmissionsLinear ==
    /\ last.fn = "carbon" =>
          /\ Len(last.ret) = Len(route_summary)
          /\ \A i \in DOMAIN last.ret :
                /\ last.ret[i].collection_route = route_summary[i].collection_route
                /\ FEq(last.ret[i].carbon_emission_kg,
                       FMul(route_summary[i].total_distance_km, last.a))
    /\ (prev.fn = "carbon" /\ last.fn = "carbon"
            /\ FEq(last.a, FMul(Num(2), prev.a))) =>
          \A i \in DOMAIN last.ret :
              FEq(last.ret[i].carbon_emission_kg,
                  FMul(Num(2), prev.ret[i].carbon_emission_kg))

C7_Witness ==
    /\ prev.fn = "carbon" /\ last.fn = "carbon"
    /\ FEq(last.a, FMul(Num(2), prev.a))
    /\ \E i \in DOMAIN last.ret : FLt(Num(0), last.ret[i].carbon_emission_kg)

\* the route of the worked example: 2 households, mean waste 5 kg/day,
\* total distance 10 km, total time 2 hr
IsExampleRoute(r) ==
    /\ FEq(r.total_households, Num(2))
    /\ FEq(r.avg_waste_kg_per_day, Num(5))
    /\ FEq(r.total_distance_km, Num(10))
    /\ FEq(r.total_time_hr, Num(2))

\* C8: the example route gets total_waste_kg_per_day = 10, total_fuel_cost =
\* 8.0, total_labor_cost = 30.0, total_maintenance_cost = 1.0,
\* total_operational_cost = 39.0 and cost_per_kg_waste = 3.9; for every route
\* total_waste_kg_per_day = total_households * avg_waste_kg_per_day and
\* cost_per_kg_waste = total_operational_cost / total_waste_kg_per_day.
C8_ExampleAndDerivedColumns ==
    pc = "ready" =>
        \A r \in Rows(route_summary) :
            /\ IsExampleRoute(r) =>
                  /\ FEq(r.total_waste_kg_per_day, Num(10))
                  /\ FEq(r.total_fuel_cost, Num(8))
                  /\ FEq(r.total_labor_cost, Num(30))
                  /\ FEq(r.total_maintenance_cost, Num(1))
                  /\ FEq(r.total_operational_cost, Num(39))
                  /\ FEq(r.cost_per_kg_waste, Rat(39, 10))
            /\ SameValue(r.total_waste_kg_per_day,
                         FMul(r.total_households, r.avg_waste_kg_per_day))
            /\ SameValue(r.cost_per_kg_waste,
                         FDiv(r.total_operational_cost, r.total_waste_kg_per_day))

C8_Witness ==
    /\ pc = "ready"
    /\ \E r \in Rows(route_summary) :
          IsExampleRoute(r) /\ FEq(r.cost_per_kg_waste, Rat(39, 10))

\* C9: adjusted_waste_kg_per_day = total_households * avg_waste_kg_per_day *
\* (1 - new_recycling_rate); when a route's adjusted waste is zero the call
\* still returns a row for every route, that route's cost_per_kg_waste is not
\* finite, and the routes with non-zero adjusted waste get
\* total_operational_cost / adjusted_waste_kg_per_day.
C9_ZeroWasteGivesNonFinite ==
    last.fn = "simulate" =>
        /\ Len(last.ret) = Len(route_summary)
        /\ \A i \in DOMAIN last.ret :
              LET row == last.ret[i]
                  adj == row.adjusted_waste_kg_per_day
              IN  /\ row.collection_route = route_summary[i].collection_route
                  /\ SameValue(adj,
                        FMul(FMul(route_summary[i].total_households,
                                  route_summary[i].avg_waste_kg_per_day),
                             FSub(Num(1), row.new_recycling_rate)))
                  /\ IsZero(adj) => ~IsFinite(row.cost_per_kg_waste)
                  /\ (IsFinite(adj) /\ ~IsZero(adj)) =>
                        /\ IsFinite(row.cost_per_kg_waste)
                        /\ FEq(row.cost_per_kg_waste,
                               FDiv(row.total_operational_cost, adj))

C9_Witness ==
    /\ last.fn = "simulate"
    /\ FEq(last.a, Rat(1, 2))
    /\ \E i, j \in DOMAIN last.ret :
          /\ IsZero(last.ret[i].adjusted_waste_kg_per_day)
          /\ FLe(Rat(1, 2), route_summary[i].avg_recycling_rate)
          /\ last.ret[i].cost_per_kg_waste = Inf(FALSE)
          /\ ~IsZero(last.ret[j].adjusted_waste_kg_per_day)
          /\ IsFinite(last.ret[j].cost_per_kg_waste)

\* the scenario table for the sliders at pct and mult over the summary base
ScenarioOf(base, pct, mult) ==
    simulate_scenario([route_summary |-> base], "route_summary",
                      FDiv(Num(pct), Num(100)), mult).ret

\* C10: after every script run the scenario table shown is simulate_scenario of
\* the base summary at the current slider values (recycling_increase =
\* percent / 100), whatever the sliders were before; and the base summary, the
\* ROI table and the emissions table shown are those of the first run.
C10_ShownTablesFollowSliders ==
    [][shown'.run =>
          /\ shown'.sim = ScenarioOf(shown'.base, recycle_inc_pct', fuel_multiplier')
          /\ shown.run =>
                /\ shown'.base = shown.base
                /\ shown'.roi = shown.roi
                /\ shown'.carbon = shown.carbon]_vars

C10_Witness ==
    /\ shown.run
    /\ recycle_inc_pct = 50 /\ fuel_multiplier = Num(2)
    /\ csv # cache.value
    /\ shown.base # <<>>
    /\ shown.sim = ScenarioOf(shown.base, 50, Num(2))
    /\ shown.sim # ScenarioOf(shown.base, 20, Num(1))

====
